---- MODULE Spec2Model ----
(***************************************************************************)
(* A model of kelleyk/go-pidfile: the pidfile record accessor              *)
(* (src/pidfile.go) and the pidfile lock built on it (src/mutex.go).       *)
(*                                                                         *)
(* The state is the environment the library works on: one pidfile path     *)
(* (its parent directory, the file's content and modification time), the   *)
(* operating system's process table, and a clock.  Time is in              *)
(* milliseconds, the unit of gopsutil's CreateTime (mutex.go:65-66).       *)
(* File content is a sequence of one-character strings.                    *)
(*                                                                         *)
(* Spec       : every library call runs to completion as one step.         *)
(* SpecAtomic : Holder, Lock and Unlock alone, one call at a time, by      *)
(*              processes that do not die.                                 *)
(* SpecConc   : Lock and Unlock run as the separate system calls they      *)
(*              make, interleaved between processes.                       *)
(* SpecFair   : SpecConc where every process goes on with its call.        *)
(***************************************************************************)
EXTENDS Integers, Sequences, FiniteSets, TLC

\* ---------------------------------------------------------------- bounds
MaxPid == 2        \* process ids 1..MaxPid
MaxNow == 1200     \* the clock stops here
TickMs == 400      \* the clock's step

\* ------------------------------------------------------ program constants
MsPerSec == 1000   \* mutex.go:74  procCreateUnixMs/1000

Pids  == 1..MaxPid
Times == {t \in 0..MaxNow : t % TickMs = 0}

VARIABLES
    now,     \* the clock, in ms
    proc,    \* process table: pid -> [alive, ctime]
    dir,     \* does the pidfile's parent directory exist
    file,    \* the pidfile: [exists, content, mtime]
    pc,      \* SpecConc: where each process is inside a call
    loc,     \* SpecConc: the local variables of each process's call
    owners,  \* processes whose last Lock succeeded and was not yet released
    held,    \* SpecAtomic: pids whose Lock succeeded, until an Unlock of that pid
    last     \* the call that has just returned, with the state it started in

vars == <<now, proc, dir, file, pc, loc, owners, held, last>>

\* ------------------------------------------------------------------ text
DigitChars == <<"0", "1", "2", "3", "4", "5", "6", "7", "8", "9">>
Digits     == {DigitChars[i] : i \in 1..Len(DigitChars)}
DigitVal(c) == CHOOSE d \in 0..9 : DigitChars[d + 1] = c

\* fmt.Fprintf(f, "%d", n) for n > 0
RECURSIVE Itoa(_)
Itoa(n) == IF n < 10 THEN <<DigitChars[n + 1]>>
           ELSE Append(Itoa(n \div 10), DigitChars[(n % 10) + 1])

IsSpace(c) == c \in {" ", "\n"}

RECURSIVE TrimLeft(_)
TrimLeft(s) == IF s # <<>> /\ IsSpace(Head(s)) THEN TrimLeft(Tail(s)) ELSE s

RECURSIVE TrimRight(_)
TrimRight(s) == IF s # <<>> /\ IsSpace(s[Len(s)])
                THEN TrimRight(SubSeq(s, 1, Len(s) - 1)) ELSE s

\* bytes.TrimSpace
TrimSpace(s) == TrimRight(TrimLeft(s))

\* The low 32 bits of the decimal number s, as two 16-bit limbs <<hi, lo>>:
\* strconv.Atoi yields a 64-bit int and Pid(pid) keeps its low 32 bits.
Limb == 2 ^ 16

RECURSIVE Low32(_, _, _)
Low32(s, hi, lo) ==
    IF s = <<>> THEN <<hi, lo>>
    ELSE LET l == lo * 10 + DigitVal(Head(s))
         IN  Low32(Tail(s), (hi * 10 + (l \div Limb)) % Limb, l % Limb)

\* two's complement negation of a 32-bit value in limbs
Neg32(v) == IF v[2] = 0 THEN <<(Limb - v[1]) % Limb, 0>>
            ELSE <<Limb - 1 - v[1], Limb - v[2]>>

\* the signed 32-bit integer a limb pair stands for: the conversion Pid(n)
ToPid(v) == IF v[1] >= Limb \div 2 THEN (v[1] - Limb) * Limb + v[2]
            ELSE v[1] * Limb + v[2]

\* strconv.Atoi followed by Pid(): an optional sign, then one or more digits.
\* (Numbers beyond 64 bits, which Atoi rejects, are outside the contents used.)
Atoi(s) ==
    LET signed == s # <<>> /\ Head(s) \in {"-", "+"}
        body   == IF signed THEN Tail(s) ELSE s
        ok     == body # <<>> /\ \A i \in 1..Len(body) : body[i] \in Digits
        mag    == Low32(body, 0, 0)
    IN  IF ~ok THEN [ok |-> FALSE, pid |-> 0]
        ELSE [ok  |-> TRUE,
              pid |-> ToPid(IF signed /\ Head(s) = "-" THEN Neg32(mag) ELSE mag)]

\* ---------------------------------------------------------------- errors
\* An error value: its cause, and whether pkg/errors has wrapped it.
Nil        == [kind |-> "nil", wrapped |-> FALSE]
Err(k)     == [kind |-> k, wrapped |-> FALSE]
\* errors.Wrap / errors.Wrapf: nil stays nil
Wrap(e)    == IF e = Nil THEN Nil ELSE [kind |-> e.kind, wrapped |-> TRUE]
\* os.IsNotExist does not look through a pkg/errors wrapper
IsNotExist(e) == e.kind = "ErrNotExist" /\ ~e.wrapped
\* mutex.go: isWrappedNotExist follows errors.Cause
isWrappedNotExist(e) == e.kind = "ErrNotExist"

\* The failure the collaborators (filesystem, process table) impose on a call.
Faults == {"none", "read", "lookup", "mkdir", "open", "write", "close", "remove"}

NoFile == [exists |-> FALSE, content |-> <<>>, mtime |-> 0]

\* ------------------------------------------------- src/pidfile.go: pidfile
\* pidfile.Read: ioutil.ReadFile, bytes.TrimSpace, strconv.Atoi, Pid().
Read(f, flt) ==
    IF ~f.exists THEN [pid |-> 0, err |-> Wrap(Err("ErrNotExist"))]
    ELSE IF flt = "read" THEN [pid |-> 0, err |-> Wrap(Err("IOFailure"))]
    ELSE LET a == Atoi(TrimSpace(f.content))
         IN  IF ~a.ok THEN [pid |-> 0, err |-> Wrap(Err("Malformed"))]
             ELSE [pid |-> a.pid, err |-> Nil]

\* The read mutex.go uses returns (pid, mtime, err): the pid as Read parses
\* it, with the file's modification time.
ReadMtime(f, flt) ==
    LET r == Read(f, flt)
    IN  [pid   |-> r.pid,
         mtime |-> IF r.err = Nil THEN f.mtime ELSE 0,
         err   |-> r.err]

\* Write that leaves an existing pidfile in place
Write_KeepExisting(self, pid, f, d, flt, t) ==
    IF flt \in {"mkdir", "open", "write", "close"}
    THEN [err |-> Wrap(Err("IOFailure")), file |-> f,
          dir |-> IF flt = "mkdir" THEN d ELSE TRUE]
    ELSE [err  |-> Nil,
          file |-> IF f.exists THEN f
                   ELSE [exists |-> TRUE, content |-> Itoa(self), mtime |-> t],
          dir  |-> TRUE]

\* Write that does not create the parent directories
Write_NoMkdir(self, pid, f, d, flt, t) ==
    IF ~d \/ flt \in {"mkdir", "open", "write", "close"}
    THEN [err |-> Wrap(Err("IOFailure")), file |-> f, dir |-> d]
    ELSE [err  |-> Nil,
          file |-> [exists |-> TRUE, content |-> Itoa(self), mtime |-> t],
          dir  |-> d]

\* pidfile.Write, called by process self with argument pid at time t.
\* The result is the error with the directory and the file it leaves.
Write(self, pid, f, d, flt, t) ==
    LET p == IF pid = 0 THEN self ELSE pid      \* assigned, not used below
    IN  IF flt = "mkdir"                         \* os.MkdirAll
        THEN [err |-> Wrap(Err("IOFailure")), file |-> f, dir |-> d]
        ELSE IF flt = "open"                     \* atomicfile.New
        THEN [err |-> Wrap(Err("IOFailure")), file |-> f, dir |-> TRUE]
        ELSE IF flt = "write"                    \* Fprintf, then the deferred Abort
        THEN [err |-> Wrap(Err("IOFailure")), file |-> f, dir |-> TRUE]
        ELSE IF flt = "close"                    \* Close: the rename
        THEN [err |-> Wrap(Err("IOFailure")), file |-> f, dir |-> TRUE]
        ELSE [err  |-> Nil,
              file |-> [exists  |-> TRUE,
                        content |-> Itoa(self),  \* "%d", os.Getpid()
                        mtime   |-> t],
              dir  |-> TRUE]

\* --------------------------------------------------- src/mutex.go: the lock
\* process.NewProcess and CreateTime on the process table pt.
Lookup(pid, pt, flt) ==
    IF flt = "lookup" THEN [err |-> Err("ProcQuery"), ms |-> 0]
    ELSE IF pid \notin DOMAIN pt \/ ~pt[pid].alive
    THEN [err |-> Err("ErrNotExist"), ms |-> 0]
    ELSE [err |-> Nil, ms |-> pt[pid].ctime]

\* time.Unix(procCreateUnixMs/1000, 0), in ms
procCreateTime(ms) == (ms \div MsPerSec) * MsPerSec

\* lockValid with the comparison turned round (After for Before)
lockValid_After(pid, mtime, pt, flt) ==
    LET q == Lookup(pid, pt, flt)
    IN  IF q.err # Nil
        THEN [ok |-> FALSE, err |-> Wrap(IF IsNotExist(q.err) THEN Nil ELSE q.err)]
        ELSE [ok |-> mtime < procCreateTime(q.ms), err |-> Nil]

\* pidfileLock.lockValid
\* lockValid that takes every failed lookup for "no such process"
lockValid_AnyErrIsGone(pid, mtime, pt, flt) ==
    LET q == Lookup(pid, pt, flt)
    IN  IF q.err # Nil THEN [ok |-> FALSE, err |-> Nil]
        ELSE [ok |-> procCreateTime(q.ms) < mtime, err |-> Nil]

lockValid(pid, mtime, pt, flt) ==
    LET q == Lookup(pid, pt, flt)
    IN  IF q.err # Nil
        THEN [ok |-> FALSE, err |-> Wrap(IF IsNotExist(q.err) THEN Nil ELSE q.err)]
        ELSE [ok |-> procCreateTime(q.ms) < mtime, err |-> Nil]

\* Holder reporting a stale pidfile as an error instead of "no holder"
Holder_StaleIsError(f, pt, flt) ==
    LET r == ReadMtime(f, flt)
    IN  IF r.err # Nil
        THEN IF isWrappedNotExist(r.err) THEN [pid |-> 0, err |-> Nil]
             ELSE [pid |-> 0, err |-> Wrap(r.err)]
        ELSE LET v == lockValid(r.pid, r.mtime, pt, flt)
             IN  IF v.err # Nil THEN [pid |-> 0, err |-> Wrap(v.err)]
                 ELSE IF ~v.ok THEN [pid |-> 0, err |-> Err("ErrNotExist")]
                 ELSE [pid |-> r.pid, err |-> Nil]

\* pidfileLock.Holder
\* Holder that takes every failed read for "no pidfile"
Holder_UnreadableIsFree(f, pt, flt) ==
    LET r == ReadMtime(f, flt)
    IN  IF r.err # Nil THEN [pid |-> 0, err |-> Nil]
        ELSE LET v == lockValid(r.pid, r.mtime, pt, flt)
             IN  IF v.err # Nil THEN [pid |-> 0, err |-> Wrap(v.err)]
                 ELSE IF ~v.ok THEN [pid |-> 0, err |-> Nil]
                 ELSE [pid |-> r.pid, err |-> Nil]

Holder(f, pt, flt) ==
    LET r == ReadMtime(f, flt)
    IN  IF r.err # Nil
        THEN IF isWrappedNotExist(r.err) THEN [pid |-> 0, err |-> Nil]
             ELSE [pid |-> 0, err |-> Wrap(r.err)]
        ELSE LET v == lockValid(r.pid, r.mtime, pt, flt)
             IN  IF v.err # Nil THEN [pid |-> 0, err |-> Wrap(v.err)]
                 ELSE IF ~v.ok THEN [pid |-> 0, err |-> Nil]
                 ELSE [pid |-> r.pid, err |-> Nil]

\* Lock letting the holder itself lock again (re-entrant)
Lock_Reentrant(self, pid, f, d, pt, flt, t) ==
    LET p == IF pid = 0 THEN self ELSE pid
        h == Holder(f, pt, flt)
    IN  IF h.err # Nil THEN [err |-> Wrap(h.err), file |-> f, dir |-> d]
        ELSE IF h.pid # 0 /\ h.pid # p
        THEN [err |-> Err("ErrExist"), file |-> f, dir |-> d]
        ELSE LET w == Write(self, p, f, d, flt, t)
             IN  [err |-> Wrap(w.err), file |-> w.file, dir |-> w.dir]

\* pidfileLock.Lock
Lock(self, pid, f, d, pt, flt, t) ==
    LET p == IF pid = 0 THEN self ELSE pid
        h == Holder(f, pt, flt)
    IN  IF h.err # Nil THEN [err |-> Wrap(h.err), file |-> f, dir |-> d]
        ELSE IF h.pid # 0 THEN [err |-> Err("ErrExist"), file |-> f, dir |-> d]
        ELSE LET w == Write(self, p, f, d, flt, t)
             IN  [err |-> Wrap(w.err), file |-> w.file, dir |-> w.dir]

\* os.Remove(p.path)
Remove(f, flt) ==
    IF ~f.exists THEN [err |-> Err("ErrNotExist"), file |-> f]
    ELSE IF flt = "remove" THEN [err |-> Err("IOFailure"), file |-> f]
    ELSE [err |-> Nil, file |-> NoFile]

\* Unlock without the ownership comparison
Unlock_AnyPid(self, pid, f, pt, flt) ==
    LET r == ReadMtime(f, flt)
    IN  IF r.err # Nil
        THEN IF isWrappedNotExist(r.err) THEN [err |-> Err("ErrNotExist"), file |-> f]
             ELSE [err |-> Wrap(r.err), file |-> f]
        ELSE LET v == lockValid(r.pid, r.mtime, pt, flt)
             IN  IF v.err # Nil THEN [err |-> Wrap(v.err), file |-> f]
                 ELSE IF ~v.ok THEN [err |-> Err("ErrNotExist"), file |-> f]
                 ELSE LET x == Remove(f, flt)
                      IN  [err |-> Wrap(x.err), file |-> x.file]

\* Unlock that reports success and leaves the pidfile in place
Unlock_NoRemove(self, pid, f, pt, flt) ==
    LET p == IF pid = 0 THEN self ELSE pid
        r == ReadMtime(f, flt)
    IN  IF r.err # Nil
        THEN IF isWrappedNotExist(r.err) THEN [err |-> Err("ErrNotExist"), file |-> f]
             ELSE [err |-> Wrap(r.err), file |-> f]
        ELSE LET v == lockValid(r.pid, r.mtime, pt, flt)
             IN  IF v.err # Nil THEN [err |-> Wrap(v.err), file |-> f]
                 ELSE IF ~v.ok THEN [err |-> Err("ErrNotExist"), file |-> f]
                 ELSE IF r.pid # p THEN [err |-> Err("NotOwner"), file |-> f]
                 ELSE [err |-> Nil, file |-> f]

\* pidfileLock.Unlock
\* Unlock that does not report a failed os.Remove
Unlock_DropRemoveErr(self, pid, f, pt, flt) ==
    LET p == IF pid = 0 THEN self ELSE pid
        r == ReadMtime(f, flt)
    IN  IF r.err # Nil
        THEN IF isWrappedNotExist(r.err) THEN [err |-> Err("ErrNotExist"), file |-> f]
             ELSE [err |-> Wrap(r.err), file |-> f]
        ELSE LET v == lockValid(r.pid, r.mtime, pt, flt)
             IN  IF v.err # Nil THEN [err |-> Wrap(v.err), file |-> f]
                 ELSE IF ~v.ok THEN [err |-> Err("ErrNotExist"), file |-> f]
                 ELSE IF r.pid # p THEN [err |-> Err("NotOwner"), file |-> f]
                 ELSE [err |-> Nil, file |-> Remove(f, flt).file]

Unlock(self, pid, f, pt, flt) ==
    LET p == IF pid = 0 THEN self ELSE pid
        r == ReadMtime(f, flt)
    IN  IF r.err # Nil
        THEN IF isWrappedNotExist(r.err) THEN [err |-> Err("ErrNotExist"), file |-> f]
             ELSE [err |-> Wrap(r.err), file |-> f]
        ELSE LET v == lockValid(r.pid, r.mtime, pt, flt)
             IN  IF v.err # Nil THEN [err |-> Wrap(v.err), file |-> f]
                 ELSE IF ~v.ok THEN [err |-> Err("ErrNotExist"), file |-> f]
                 ELSE IF r.pid # p THEN [err |-> Err("NotOwner"), file |-> f]
                 ELSE LET x == Remove(f, flt)
                      IN  [err |-> Wrap(x.err), file |-> x.file]

\* ------------------------------------------------------------ the machine
\* What other programs are seen to leave in the file: "1\n", a non-number,
\* white space alone, and 4294967297 (2^32 + 1).
ExtContents ==
    {<<"1", "\n">>, <<"x">>, <<"\n">>,
     <<"4", "2", "9", "4", "9", "6", "7", "2", "9", "7">>}

Dead    == [alive |-> FALSE, ctime |-> 0]
\* A call's local variables in SpecConc: op and arg (pid after the
\* substitution of 0), lockPid and lockMtime as read; seen tells whether the
\* call's read found a pidfile.
NoLocal == [op |-> "none", arg |-> 0, lockPid |-> 0, lockMtime |-> 0,
            seen |-> FALSE]
\* A returned call: seen tells whether its read found a pidfile, pre is the
\* file as its last step found it (at its start, when the call is one step).
NoCall  == [op |-> "none", caller |-> 0, arg |-> 0, fault |-> "none",
            seen |-> FALSE, pre |-> NoFile, preDir |-> FALSE,
            err |-> Nil, pid |-> 0]

Init ==
    /\ now = 0
    /\ proc = [p \in Pids |-> Dead]
    /\ dir = FALSE
    /\ file = NoFile
    /\ pc = [p \in Pids |-> "idle"]
    /\ loc = [p \in Pids |-> NoLocal]
    /\ owners = {}
    /\ held = {}
    /\ last = NoCall

\* The caller looks at a call's result (Return) before anything else happens.
Quiet == last.op = "none"

\* A process may call the library when it runs and is in no other call.  It
\* runs only after the clock reading at which it was created: its creation
\* time is earlier than the mtime of any file it writes.
CanCall(self) ==
    /\ Quiet
    /\ proc[self].alive /\ proc[self].ctime < now
    /\ pc[self] = "idle"

Returned(o, self, arg, flt, e, pid) ==
    [op |-> o, caller |-> self, arg |-> arg, fault |-> flt,
     seen |-> file.exists, pre |-> file, preDir |-> dir, err |-> e,
     pid |-> pid]

\* ---- the environment
Tick ==
    /\ Quiet
    /\ now + TickMs <= MaxNow
    /\ now' = now + TickMs
    /\ last' = NoCall
    /\ UNCHANGED <<proc, dir, file, pc, loc, owners, held>>

\* The system creates a process with id p (a first use of the id, or a reuse).
Spawn(p) ==
    /\ Quiet
    /\ ~proc[p].alive
    /\ proc' = [proc EXCEPT ![p] = [alive |-> TRUE, ctime |-> now]]
    /\ last' = NoCall
    /\ UNCHANGED <<now, dir, file, pc, loc, owners, held>>

\* Process p exits, in or out of a call, without unlocking.
Kill(p) ==
    /\ Quiet
    /\ proc[p].alive
    /\ proc' = [proc EXCEPT ![p] = Dead]
    /\ pc' = [pc EXCEPT ![p] = "idle"]
    /\ loc' = [loc EXCEPT ![p] = NoLocal]
    /\ owners' = owners \ {p}
    /\ last' = NoCall
    /\ UNCHANGED <<now, dir, file, held>>

\* os.Chtimes on the pidfile, as the tests' makePidfile(false) does.
Chtimes(t) ==
    /\ Quiet
    /\ file.exists
    /\ file.mtime # t
    /\ file' = [file EXCEPT !.mtime = t]
    /\ last' = NoCall
    /\ UNCHANGED <<now, proc, dir, pc, loc, owners, held>>

\* Another program writes the file, as the tests' ioutil.WriteFile does.
ExtWrite(c) ==
    /\ Quiet
    /\ dir
    /\ file' = [exists |-> TRUE, content |-> c, mtime |-> now]
    /\ last' = NoCall
    /\ UNCHANGED <<now, proc, dir, pc, loc, owners, held>>

Env ==
    \/ Tick
    \/ \E p \in Pids : Spawn(p)
    \/ \E p \in Pids : Kill(p)
    \/ \E t \in Times : Chtimes(t)
    \/ \E c \in ExtContents : ExtWrite(c)

\* ---- Spec: each call of the library is one step
CallRead(self, flt) ==
    /\ CanCall(self)
    /\ LET r == Read(file, flt)
       IN  last' = Returned("Read", self, 0, flt, r.err, r.pid)
    /\ UNCHANGED <<now, proc, dir, file, pc, loc, owners, held>>

CallWrite(self, pid, flt) ==
    /\ CanCall(self)
    /\ LET w == Write(self, pid, file, dir, flt, now)
       IN  /\ file' = w.file
           /\ dir' = w.dir
           /\ last' = Returned("Write", self, pid, flt, w.err, 0)
    /\ UNCHANGED <<now, proc, pc, loc, owners, held>>

CallHolder(self, flt) ==
    /\ CanCall(self)
    /\ LET h == Holder(file, proc, flt)
       IN  last' = Returned("Holder", self, 0, flt, h.err, h.pid)
    /\ UNCHANGED <<now, proc, dir, file, pc, loc, owners, held>>

CallLock(self, pid, flt) ==
    /\ CanCall(self)
    /\ LET l == Lock(self, pid, file, dir, proc, flt, now)
       IN  /\ file' = l.file
           /\ dir' = l.dir
           /\ owners' = IF l.err = Nil THEN owners \cup {self} ELSE owners
           /\ last' = Returned("Lock", self, pid, flt, l.err, 0)
    /\ UNCHANGED <<now, proc, pc, loc, held>>

CallUnlock(self, pid, flt) ==
    /\ CanCall(self)
    /\ LET u == Unlock(self, pid, file, proc, flt)
       IN  /\ file' = u.file
           /\ owners' = IF u.err = Nil THEN owners \ {self} ELSE owners
           /\ last' = Returned("Unlock", self, pid, flt, u.err, 0)
    /\ UNCHANGED <<now, proc, dir, pc, loc, held>>

\* The caller has looked at the result of its call (the tests' assertions).
Return ==
    /\ ~Quiet
    /\ last' = NoCall
    /\ UNCHANGED <<now, proc, dir, file, pc, loc, owners, held>>

Args == 0..MaxPid

Next ==
    \/ Env
    \/ Return
    \/ \E self \in Pids, flt \in {"none", "read"} : CallRead(self, flt)
    \/ \E self \in Pids, pid \in Args,
          flt \in {"none", "mkdir", "open", "write", "close"} :
             CallWrite(self, pid, flt)
    \/ \E self \in Pids, flt \in {"none", "read", "lookup"} :
             CallHolder(self, flt)
    \/ \E self \in Pids, pid \in Args, flt \in Faults \ {"remove"} :
             CallLock(self, pid, flt)
    \/ \E self \in Pids, pid \in Args,
          flt \in {"none", "read", "lookup", "remove"} :
             CallUnlock(self, pid, flt)

Spec == Init /\ [][Next]_vars

\* ---- SpecAtomic: the lock alone, one call at a time, no process dies
\* Lock and Unlock as in Spec, with the record of the pids that hold: a pid
\* holds from its process's successful Lock to a successful Unlock of it.
AtomicLock(self, pid, flt) ==
    /\ CanCall(self)
    /\ LET l == Lock(self, pid, file, dir, proc, flt, now)
       IN  /\ file' = l.file
           /\ dir' = l.dir
           /\ owners' = IF l.err = Nil THEN owners \cup {self} ELSE owners
           /\ held' = IF l.err = Nil THEN held \cup {self} ELSE held
           /\ last' = Returned("Lock", self, pid, flt, l.err, 0)
    /\ UNCHANGED <<now, proc, pc, loc>>

AtomicUnlock(self, pid, flt) ==
    /\ CanCall(self)
    /\ LET u == Unlock(self, pid, file, proc, flt)
       IN  /\ file' = u.file
           /\ owners' = IF u.err = Nil THEN owners \ {self} ELSE owners
           /\ held' = IF u.err = Nil
                      THEN held \ {IF pid = 0 THEN self ELSE pid} ELSE held
           /\ last' = Returned("Unlock", self, pid, flt, u.err, 0)
    /\ UNCHANGED <<now, proc, dir, pc, loc>>

NextAtomic ==
    \/ Tick
    \/ \E p \in Pids : Spawn(p)
    \/ Return
    \/ \E self \in Pids, flt \in {"none", "read", "lookup"} :
             CallHolder(self, flt)
    \/ \E self \in Pids, pid \in Args, flt \in Faults \ {"remove"} :
             AtomicLock(self, pid, flt)
    \/ \E self \in Pids, pid \in Args,
          flt \in {"none", "read", "lookup", "remove"} :
             AtomicUnlock(self, pid, flt)

SpecAtomic == Init /\ [][NextAtomic]_vars

\* ---- SpecConc: Lock and Unlock as the steps they are made of
\* A call returns: its result is there to be looked at, its locals are gone.
Ret(self, e) ==
    /\ pc' = [pc EXCEPT ![self] = "idle"]
    /\ loc' = [loc EXCEPT ![self] = NoLocal]
    /\ last' = [op |-> loc[self].op, caller |-> self, arg |-> loc[self].arg,
                fault |-> "none", seen |-> loc[self].seen, pre |-> file,
                preDir |-> dir, err |-> e, pid |-> 0]

\* Lock, mutex.go:107-111, and Holder's read, mutex.go:82-88
LockRead(self, pid, flt) ==
    /\ CanCall(self)
    /\ LET p == IF pid = 0 THEN self ELSE pid
           r == ReadMtime(file, flt)
           l == [NoLocal EXCEPT !.op = "Lock", !.arg = p, !.seen = file.exists]
       IN  IF r.err # Nil
           THEN IF isWrappedNotExist(r.err)
                THEN /\ pc' = [pc EXCEPT ![self] = "lock_write"]
                     /\ loc' = [loc EXCEPT ![self] = l]
                     /\ last' = last
                ELSE /\ pc' = pc
                     /\ loc' = loc
                     /\ last' = [Returned("Lock", self, p, "none",
                                          Wrap(Wrap(r.err)), 0)
                                    EXCEPT !.arg = p]
           ELSE /\ pc' = [pc EXCEPT ![self] = "lock_valid"]
                /\ loc' = [loc EXCEPT ![self] =
                              [l EXCEPT !.lockPid = r.pid, !.lockMtime = r.mtime]]
                /\ last' = last
    /\ UNCHANGED <<now, proc, dir, file, owners, held>>

\* LockValid that waits while the lock is held instead of returning
LockValid_Wait(self, flt) ==
    /\ Quiet
    /\ pc[self] = "lock_valid"
    /\ LET v == lockValid(loc[self].lockPid, loc[self].lockMtime, proc, flt)
           h == IF v.err # Nil \/ ~v.ok THEN 0 ELSE loc[self].lockPid
       IN  IF v.err # Nil THEN Ret(self, Wrap(Wrap(v.err)))
           ELSE IF h # 0 THEN UNCHANGED <<pc, loc, last>>
           ELSE /\ pc' = [pc EXCEPT ![self] = "lock_write"]
                /\ loc' = [loc EXCEPT ![self] =
                              [@ EXCEPT !.lockPid = 0, !.lockMtime = 0]]
                /\ last' = last
    /\ UNCHANGED <<now, proc, dir, file, owners, held>>

\* Holder's validation, mutex.go:90-98, and Lock's test, mutex.go:112-117
LockValid(self, flt) ==
    /\ Quiet
    /\ pc[self] = "lock_valid"
    /\ LET v == lockValid(loc[self].lockPid, loc[self].lockMtime, proc, flt)
           h == IF v.err # Nil \/ ~v.ok THEN 0 ELSE loc[self].lockPid
       IN  IF v.err # Nil THEN Ret(self, Wrap(Wrap(v.err)))
           ELSE IF h # 0 THEN Ret(self, Err("ErrExist"))
           ELSE /\ pc' = [pc EXCEPT ![self] = "lock_write"]
                /\ loc' = [loc EXCEPT ![self] =
                              [@ EXCEPT !.lockPid = 0, !.lockMtime = 0]]
                /\ last' = last
    /\ UNCHANGED <<now, proc, dir, file, owners, held>>

\* Lock's write, mutex.go:119-123
LockWrite(self, flt) ==
    /\ Quiet
    /\ pc[self] = "lock_write"
    /\ LET w == Write(self, loc[self].arg, file, dir, flt, now)
       IN  /\ file' = w.file
           /\ dir' = w.dir
           /\ owners' = IF w.err = Nil THEN owners \cup {self} ELSE owners
           /\ Ret(self, Wrap(w.err))
    /\ UNCHANGED <<now, proc, held>>

\* Unlock's read, mutex.go:129-139
UnlockRead(self, pid, flt) ==
    /\ CanCall(self)
    /\ LET p == IF pid = 0 THEN self ELSE pid
           r == ReadMtime(file, flt)
       IN  IF r.err # Nil
           THEN /\ pc' = pc
                /\ loc' = loc
                /\ last' = [Returned("Unlock", self, p, "none",
                                     IF isWrappedNotExist(r.err)
                                     THEN Err("ErrNotExist") ELSE Wrap(r.err), 0)
                               EXCEPT !.arg = p]
           ELSE /\ pc' = [pc EXCEPT ![self] = "unlock_valid"]
                /\ loc' = [loc EXCEPT ![self] =
                              [op |-> "Unlock", arg |-> p, lockPid |-> r.pid,
                               lockMtime |-> r.mtime, seen |-> file.exists]]
                /\ last' = last
    /\ UNCHANGED <<now, proc, dir, file, owners, held>>

\* Unlock's validation and ownership test, mutex.go:141-152
UnlockValid(self, flt) ==
    /\ Quiet
    /\ pc[self] = "unlock_valid"
    /\ LET v == lockValid(loc[self].lockPid, loc[self].lockMtime, proc, flt)
       IN  IF v.err # Nil THEN Ret(self, Wrap(v.err))
           ELSE IF ~v.ok THEN Ret(self, Err("ErrNotExist"))
           ELSE IF loc[self].lockPid # loc[self].arg
           THEN Ret(self, Err("NotOwner"))
           ELSE /\ pc' = [pc EXCEPT ![self] = "unlock_remove"]
                /\ loc' = [loc EXCEPT ![self] =
                              [@ EXCEPT !.lockPid = 0, !.lockMtime = 0]]
                /\ last' = last
    /\ UNCHANGED <<now, proc, dir, file, owners, held>>

\* Unlock's delete, mutex.go:154-158
UnlockRemove(self, flt) ==
    /\ Quiet
    /\ pc[self] = "unlock_remove"
    /\ LET x == Remove(file, flt)
       IN  /\ file' = x.file
           /\ owners' = IF x.err = Nil THEN owners \ {self} ELSE owners
           /\ Ret(self, Wrap(x.err))
    /\ UNCHANGED <<now, proc, dir, held>>

NextConc ==
    \/ Tick
    \/ \E p \in Pids : Spawn(p)
    \/ \E p \in Pids : Kill(p)
    \/ Return
    \/ \E self \in Pids, pid \in Args, flt \in {"none", "read"} :
          LockRead(self, pid, flt)
    \/ \E self \in Pids, flt \in {"none", "lookup"} : LockValid(self, flt)
    \/ \E self \in Pids, flt \in {"none", "mkdir", "open", "write", "close"} :
          LockWrite(self, flt)
    \/ \E self \in Pids, pid \in Args, flt \in {"none", "read"} :
          UnlockRead(self, pid, flt)
    \/ \E self \in Pids, flt \in {"none", "lookup"} : UnlockValid(self, flt)
    \/ \E self \in Pids, flt \in {"none", "remove"} : UnlockRemove(self, flt)

SpecConc == Init /\ [][NextConc]_vars

\* ---- SpecFair: SpecConc with the scheduling the system gives
\* The next system call of the call process self is in.  Whether a system
\* call fails is the collaborator's choice: the scheduling promises only that
\* the call is made.
Step(self) ==
    \/ LockValid(self, "none")
    \/ LockWrite(self, "none")
    \/ UnlockValid(self, "none")
    \/ UnlockRemove(self, "none")

\* A process in a call goes on running its code, however often the others
\* run in between; a returned result is looked at.
SpecFair ==
    /\ SpecConc
    /\ WF_vars(Return)
    /\ \A self \in Pids : SF_vars(Step(self))

\* ------------------------------------------------------------- the claims
\* The vocabulary of the claims, stated on the file and the process table
\* themselves (creation times as the system has them, in ms).
Parses(f)   == f.exists /\ Atoi(TrimSpace(f.content)).ok
Recorded(f) == Atoi(TrimSpace(f.content)).pid
Running(f, pt) ==
    Parses(f) /\ Recorded(f) \in DOMAIN pt /\ pt[Recorded(f)].alive
\* LOCKED(pid): the recorded process runs and was created before the mtime
ValidHolder(f, pt) ==
    IF Running(f, pt) /\ pt[Recorded(f)].ctime < f.mtime THEN Recorded(f) ELSE 0
\* the recorded process runs but started after the file was written
StartedAfter(f, pt) == Running(f, pt) /\ pt[Recorded(f)].ctime > f.mtime
\* the recorded process no longer exists
Gone(f, pt)  == Parses(f) /\ ~Running(f, pt)
Stale(f, pt) == Gone(f, pt) \/ StartedAfter(f, pt)
\* the pid a Lock or Unlock call is for: 0 stands for the caller
Effective(c) == IF c.arg = 0 THEN c.caller ELSE c.arg
\* the collaborators answered: the file could be read, the process queried
Answered(c) == c.fault \notin {"read", "lookup"}
Alive       == {p \in Pids : proc[p].alive}

\* C1: a Lock called while the pidfile records a valid holder (the caller
\* itself included) fails with os.ErrExist and leaves content and mtime as
\* they were.
C1_LockHeldFails ==
    (last.op = "Lock" /\ Answered(last) /\ ValidHolder(last.pre, proc) # 0)
        => (last.err = Err("ErrExist") /\ file = last.pre)

C1_Witness ==
    /\ last.op = "Lock" /\ last.fault = "none"
    /\ ValidHolder(last.pre, proc) = last.caller
    /\ last.err = Err("ErrExist")

\* C2: a Lock(0) called while the pidfile is absent or stale succeeds, leaves
\* the caller's pid in the pidfile, and a Holder() right after it returns the
\* caller's pid.
C2_LockFreeSucceeds ==
    (/\ last.op = "Lock" /\ last.arg = 0 /\ last.fault = "none"
     /\ (~last.pre.exists \/ Stale(last.pre, proc)))
        => /\ last.err = Nil
           /\ file.exists /\ file.content = Itoa(last.caller)
           /\ Holder(file, proc, "none") = [pid |-> last.caller, err |-> Nil]

\* C3: an Unlock(pid) called while the pidfile validly records that pid (0
\* for the caller) succeeds and removes the pidfile: Holder() then returns
\* (0, nil) and a Lock by any running process succeeds.
C3_UnlockOwnerReleases ==
    (/\ last.op = "Unlock" /\ last.fault = "none"
     /\ ValidHolder(last.pre, proc) = Effective(last))
        => /\ last.err = Nil
           /\ file = NoFile
           /\ Holder(file, proc, "none") = [pid |-> 0, err |-> Nil]
           /\ \A q \in Alive, a \in Args :
                 Lock(q, a, file, dir, proc, "none", now).err = Nil

C3_Witness ==
    /\ last.op = "Unlock" /\ last.fault = "none" /\ last.arg = 0
    /\ ValidHolder(last.pre, proc) = last.caller
    /\ last.err = Nil /\ ~file.exists

\* C4: an Unlock(pid) called while the valid holder is another pid fails with
\* the ownership error and leaves the pidfile as it was; the holder stays
\* the holder.
C4_UnlockNotOwnerFails ==
    (/\ last.op = "Unlock" /\ Answered(last)
     /\ ValidHolder(last.pre, proc) \notin {0, Effective(last)})
        => /\ last.err = Err("NotOwner")
           /\ file = last.pre
           /\ Holder(file, proc, "none").pid = ValidHolder(last.pre, proc)

C4_Witness ==
    /\ last.op = "Unlock" /\ last.fault = "none"
    /\ ValidHolder(last.pre, proc) \notin {0, Effective(last)}
    /\ last.err = Err("NotOwner") /\ file.exists

\* C5: an Unlock called while the pidfile is absent or stale fails with
\* os.ErrNotExist and changes nothing on disk.
C5_UnlockFreeFails ==
    (/\ last.op = "Unlock" /\ last.fault = "none"
     /\ (~last.pre.exists \/ Stale(last.pre, proc)))
        => (last.err = Err("ErrNotExist") /\ file = last.pre)

\* C6: Holder() on a pidfile whose recorded process started after the file's
\* modification time returns (0, nil), also within one second.
C6_StartedAfterIsStale ==
    (last.op = "Holder" /\ last.fault = "none" /\ StartedAfter(last.pre, proc))
        => (last.pid = 0 /\ last.err = Nil)

\* C7: Holder() on a pidfile whose recorded process runs and was created
\* strictly before the file's modification time returns the recorded pid
\* with no error.
C7_HolderReturnsValid ==
    (last.op = "Holder" /\ last.fault = "none" /\ ValidHolder(last.pre, proc) # 0)
        => (last.pid = Recorded(last.pre) /\ last.err = Nil)

C7_Witness ==
    /\ last.op = "Holder" /\ last.fault = "none"
    /\ ValidHolder(last.pre, proc) = last.caller
    /\ last.pre.mtime = now
    /\ last.pid = last.caller /\ last.err = Nil

\* C8: Holder() returns (0, nil) when there is no pidfile and when the
\* recorded process does not exist; in the second case a Lock by any running
\* process then succeeds.
C8_NoHolderIsNoError ==
    (/\ last.op = "Holder" /\ last.fault = "none"
     /\ (~last.pre.exists \/ Gone(last.pre, proc)))
        => /\ last.pid = 0 /\ last.err = Nil
           /\ Gone(last.pre, proc) =>
                 \A q \in Alive, a \in Args :
                    Lock(q, a, file, dir, proc, "none", now).err = Nil

C8_Witness ==
    /\ last.op = "Holder" /\ last.fault = "none"
    /\ Gone(last.pre, proc)
    /\ last.pid = 0 /\ last.err = Nil

\* C10: a Lock(p) with p > 0 that succeeds leaves p, its argument, in the
\* pidfile, so that Read() returns p.
C10_LockRecordsArgument ==
    (last.op = "Lock" /\ last.arg > 0 /\ last.fault = "none" /\ last.err = Nil)
        => Read(file, "none") = [pid |-> last.arg, err |-> Nil]

\* C9: two Lock calls can race: both find no holder, both write, both return
\* success.  A Lock that returns success has replaced whatever the file held
\* when it wrote (another Lock's record included) by the writer's own
\* record, so the file ends with the later writer only.
C9_LaterWriteWins ==
    (last.op = "Lock" /\ last.err = Nil)
        => /\ file = [exists |-> TRUE, content |-> Itoa(last.caller), mtime |-> now]
           /\ last.caller \in owners

\* q's Lock found no pidfile, p's Lock wrote before q's did, both returned
\* success and the file names q alone.
C9_Witness ==
    \E p, q \in Pids :
        /\ p # q
        /\ owners = {p, q}
        /\ pc[p] = "idle"
        /\ last.op = "Lock" /\ last.caller = q /\ last.err = Nil
        /\ ~last.seen
        /\ last.pre.exists /\ last.pre.content = Itoa(p)
        /\ file.exists /\ file.content = Itoa(q)

\* C11: for every pid p > 0, a Write(p) that succeeds is followed by a Read()
\* that returns p.
C11_WriteReadRoundTrip ==
    (last.op = "Write" /\ last.arg > 0 /\ last.fault = "none" /\ last.err = Nil)
        => Read(file, "none") = [pid |-> last.arg, err |-> Nil]

\* C12: Write(0) and Write(own pid) do the same: each succeeds, leaves the
\* caller's pid in decimal as the file's content, and a Read() then returns
\* the caller's pid; the parent directory exists afterwards, also when it
\* did not before the call.
C12_WriteZeroIsOwnPid ==
    (last.op = "Write" /\ last.fault = "none" /\ last.arg \in {0, last.caller})
        => /\ last.err = Nil
           /\ dir
           /\ file = [exists |-> TRUE, content |-> Itoa(last.caller), mtime |-> now]
           /\ Read(file, "none") = [pid |-> last.caller, err |-> Nil]
           /\ Write(last.caller, 0, last.pre, last.preDir, "none", now)
                 = Write(last.caller, last.caller, last.pre, last.preDir, "none", now)

\* Write(0) on a path whose parent directory did not exist
C12_Witness ==
    /\ last.op = "Write" /\ last.fault = "none" /\ last.arg = 0
    /\ ~last.preDir /\ ~last.pre.exists
    /\ last.err = Nil /\ dir /\ file.exists
    /\ Read(file, "none").pid = last.caller

\* C13: a Write that returns an error, at whichever stage, leaves the disk
\* as it was: the pidfile as before the call and no new file or directory.
C13_WriteFailureLeavesDisk ==
    (last.op = "Write" /\ last.err # Nil)
        => (file = last.pre /\ dir = last.preDir)

\* C14: an Unlock(pid) that finds pid the valid holder and whose delete
\* fails returns an error and the lock stays held: the pidfile is as it was
\* and Holder() still returns pid.
C14_RemoveFailureKeepsLock ==
    (/\ last.op = "Unlock" /\ last.fault = "remove"
     /\ ValidHolder(last.pre, proc) = Effective(last))
        => /\ last.err # Nil
           /\ file = last.pre
           /\ Holder(file, proc, "none") = [pid |-> Effective(last), err |-> Nil]

C14_Witness ==
    /\ last.op = "Unlock" /\ last.fault = "remove"
    /\ ValidHolder(last.pre, proc) = Effective(last)
    /\ last.err = Wrap(Err("IOFailure"))
    /\ file.exists /\ last.caller \in owners

\* C15: when the pidfile names a pid and the process-table lookup fails for
\* another reason than "no such process", Holder() returns an error (not
\* (0, nil)), and Lock and Unlock return an error and neither write nor
\* delete the pidfile.
C15_LookupFailureIsError ==
    (/\ last.op \in {"Holder", "Lock", "Unlock"} /\ last.fault = "lookup"
     /\ Parses(last.pre))
        => /\ last.err # Nil /\ last.err.kind = "ProcQuery"
           /\ last.pid = 0
           /\ file = last.pre /\ dir = last.preDir

\* the lookup fails on a record whose process is gone: a Lock that would
\* otherwise have written
C15_Witness ==
    /\ last.op = "Lock" /\ last.fault = "lookup"
    /\ Gone(last.pre, proc)
    /\ last.err.kind = "ProcQuery" /\ file = last.pre

\* how far into its call a process is
Rank(l) == CASE l = "idle" -> 0
             [] l \in {"lock_valid", "unlock_valid"} -> 1
             [] l \in {"lock_write", "unlock_remove"} -> 2

C17_MutualExclusion ==
    /\ Cardinality(owners) <= 1
    /\ \A p \in owners : Holder(file, proc, "none") = [pid |-> p, err |-> Nil]

\* C17 as amended: ... that no successful Unlock of its pid (its own, or
\* another process's Unlock(pid)) has released since ...
C17_MutualExclusionByPid ==
    /\ Cardinality(held) <= 1
    /\ \A p \in held : Holder(file, proc, "none") = [pid |-> p, err |-> Nil]

\* p holds the lock and the Lock of another running process has just failed
C17_Witness ==
    \E p \in Pids :
        /\ held = {p}
        /\ last.op = "Lock" /\ last.fault = "none" /\ last.caller # p
        /\ last.err = Err("ErrExist")
        /\ Holder(file, proc, "none").pid = p

\* C18: under interleaved Lock and Unlock calls, an Unlock(p) that succeeds
\* has deleted a pidfile whose content, at the delete, was p: never a pidfile
\* that another process wrote after Unlock's read and validation.
C18_UnlockDeletesOwnRecord ==
    (last.op = "Unlock" /\ last.err = Nil)
        => (Parses(last.pre) /\ Recorded(last.pre) = last.arg)

\* the pidfile is there and its trimmed content is no number
Malformed(f) == f.exists /\ ~Parses(f)

RECURSIVE StripZeros(_)
StripZeros(s) == IF Len(s) > 1 /\ Head(s) = "0" THEN StripZeros(Tail(s)) ELSE s

\* the number a text holds, in canonical decimal
Canon(s) ==
    LET t    == TrimSpace(s)
        sign == t # <<>> /\ Head(t) \in {"-", "+"}
        z    == StripZeros(IF sign THEN Tail(t) ELSE t)
    IN  IF sign /\ Head(t) = "-" /\ z # <<"0">> THEN <<"-">> \o z ELSE z

\* a pid in decimal
Shown(n) == IF n < 0 THEN <<"-">> \o Itoa(0 - n) ELSE Itoa(n)

\* C20: a Read() that succeeds returns the decimal integer written in the
\* file: a number outside the signed 32-bit range never comes back as another
\* pid, so the pid Holder() returns and the pid a successful Unlock matched
\* are the number the file holds.
C20_ReadReturnsWritten ==
    /\ (last.op = "Read" /\ last.err = Nil)
          => Shown(last.pid) = Canon(last.pre.content)
    /\ (last.op = "Holder" /\ last.err = Nil /\ last.pid # 0)
          => Shown(last.pid) = Canon(last.pre.content)
    /\ (last.op = "Unlock" /\ last.err = Nil)
          => Shown(Effective(last)) = Canon(last.pre.content)

====
